---- MODULE Spec2Model ----
(***************************************************************************)
(* Cart pricing, coupon application and checkout of the snuggle backend.   *)
(*                                                                         *)
(* The persisted state is the content of the database tables.  A request   *)
(* handler runs inside one AsyncSession (app/database.py get_db): what it  *)
(* changes lives in the session until commit() and is thrown away when the *)
(* session is closed without a commit.  Handlers are cut into steps at the *)
(* awaits where another request can run in between.                        *)
(*                                                                         *)
(* Money is counted in 1/10000 of a rupee (a hundredth of a paisa), so     *)
(* that percentages of paise amounts and the 2-decimal rounding are exact. *)
(* A nullable column holds <<>> for NULL and <<v>> for the value v.        *)
(* A date string is the sequence of its digits and is compared the way    *)
(* Python compares strings.  An average rating is counted in tenths.      *)
(***************************************************************************)
EXTENDS Integers, Sequences, FiniteSets, TLC

\* ---------------------------------------------------------------- bounds
MaxStock == 2        \* the stock of a product stays in 0..MaxStock
MaxQty   == 2        \* the quantities of a request are -1..MaxQty
MaxItems == 2        \* rows ever inserted into cart_items
MaxOrders == 1       \* a checkout begins while fewer order ids were drawn
MaxUses  == 2        \* a coupon is applied while its usage_count is below this
                     \* or within one of USAGE_LIMIT
MaxDays  == 1        \* days that pass
MaxCoupons == 2      \* rows ever inserted into coupons
MaxReviews == 4      \* rows ever inserted into product_reviews

\* ------------------------------------------------------------- constants
FREE_SHIPPING_OVER == 1000     \* rupees
STANDARD_SHIPPING  == 99       \* rupees
GST_PERCENT        == 18
USAGE_LIMIT        == 1000

Rs(x) == x * 10000

Users    == {"u1", "u2"}
Products == {"p1", "p2"}
Sessions == {"s1", "s2"}
Quantities == (0 - 1) .. MaxQty

Null      == <<>>
IsNull(x) == x = <<>>
Val(x)    == x[1]
\* Python's `x or 0` and the truth value of a nullable number
OrZero(x) == IF IsNull(x) THEN 0 ELSE Val(x)
Truthy(x) == ~IsNull(x) /\ Val(x) # 0

\* A string is the sequence of its characters; a date string holds digits.
\* str(date) of the day number d: fixed width, zero padded.
IsoDate(d) == <<d \div 10, d % 10>>
\* Python's a < b on strings
RECURSIVE StrLess(_, _)
StrLess(a, b) ==
    IF b = <<>> THEN FALSE
    ELSE IF a = <<>> THEN TRUE
    ELSE IF a[1] # b[1] THEN a[1] < b[1]
    ELSE StrLess(Tail(a), Tail(b))
\* the truth value of a nullable string: NULL and "" are false
StrTruthy(x) == ~IsNull(x) /\ Val(x) # <<>>

\* the coupon codes requests send, and str.upper() on them
InputCodes == {"flat100", "FLAT100", "SAVE10", "NOPE"}
Upper(code) == IF code = "flat100" THEN "FLAT100" ELSE code

VARIABLES
    products,        \* table products:      id -> [stock, price]
    carts,           \* table carts:         set of [id, user_id]
    cart_items,      \* table cart_items:    set of [id, cart_id, product_id, quantity]
    orders,          \* table orders:        set of [id, user_id, total_amount, status]
    order_items,     \* table order_items:   set of [order_id, n, product_id, quantity,
                     \*                              price_at_purchase]
    coupons,         \* table coupons:       set of coupon rows
    cart_settings,   \* table cart_settings: set of [user_id, coupon_applied]
    coupon_usages,   \* table coupon_usages: set of [user_id, coupon_type]
    today,           \* datetime.now().date(), as the number of the day
    seq,             \* the id sequences of the tables
    sess,            \* the AsyncSession of each request in flight
    resp,            \* the response of each request in flight
    stock0,          \* history: the stock every product started with
    ratings,         \* table products:      id -> [average_rating, review_count]
    product_reviews  \* table product_reviews: set of [id, product_id, user_id, rating]

vars == <<products, carts, cart_items, orders, order_items, coupons, cart_settings,
          coupon_usages, today, seq, sess, resp, stock0, ratings, product_reviews>>

\* The committed content of the tables the handlers write.
DB == [products |-> products, carts |-> carts, cart_items |-> cart_items,
       orders |-> orders, order_items |-> order_items, coupons |-> coupons,
       cart_settings |-> cart_settings]

\* the handler's transaction commits: the tables become db
Persist(db) ==
    /\ products' = db.products
    /\ carts' = db.carts
    /\ cart_items' = db.cart_items
    /\ orders' = db.orders
    /\ order_items' = db.order_items
    /\ coupons' = db.coupons
    /\ cart_settings' = db.cart_settings

fixed == <<coupon_usages, today, stock0, ratings, product_reviews>>

NoSummary == [subtotal |-> 0, shipping |-> 0, tax |-> 0, discount |-> 0,
              total |-> 0, item_count |-> 0, is_free_shipping |-> TRUE]

NoResp == [code |-> 0, detail |-> "", order_id |-> 0, summary |-> NoSummary]

Reply(c, d) == [NoResp EXCEPT !.code = c, !.detail = d]

\* A session that holds nothing: no loaded object, no pending change.
IdleSession ==
    [op |-> "idle", pc |-> "idle", user |-> "",
     items |-> {},                         \* cart.items as loaded
     stock |-> [p \in Products |-> 0],     \* Product.stock of the loaded objects
     dirty |-> {},                         \* products whose stock attribute changed
     total_amount |-> 0,
     order_items |-> <<>>,
     order_id |-> 0,
     input |-> "",                         \* the coupon code of the request
     coupon_id |-> 0,                      \* the Coupon object that was changed, 0 if none
     usage_count |-> 0,                    \* its usage_count attribute
     coupon_code |-> "",
     discount |-> 0,
     subtotal |-> 0,
     cart_id |-> 0,                        \* the Cart loaded or created, 0 if none
     product_id |-> "",                    \* CartItemAdd.product_id of the request
     quantity |-> 0,                       \* CartItemAdd.quantity of the request
     rating |-> 0,                         \* the rating of the review sent
     item_id |-> 0,                        \* the cart item the request names
     settings_found |-> FALSE,             \* a CartSettings row was loaded
     flushed |-> FALSE,                    \* the pending UPDATEs were sent to the database
     pre |-> [products |-> <<>>]]          \* history: the tables when the request began

Idle(s) == sess[s].op = "idle"
AllIdle == \A s \in Sessions : Idle(s)

\* ----------------------------------------------------------- row queries
CartsOf(u) == {c \in carts : c.user_id = u}
ItemsOf(c) == {i \in cart_items : i.cart_id = c.id}

RECURSIVE Sum(_)
Sum(S) == IF S = {} THEN 0
          ELSE LET x == CHOOSE y \in S : TRUE IN x.n + Sum(S \ {x})

\* sum(item.product.price * item.quantity for item in cart.items)
Subtotal(items) ==
    Sum({[id |-> i.id, n |-> products[i.product_id].price * i.quantity] : i \in items})

\* cart.items in the order the rows are returned
RECURSIVE ItemList(_)
ItemList(S) ==
    IF S = {} THEN <<>>
    ELSE LET m == CHOOSE i \in S : \A j \in S : i.id <= j.id
         IN <<m>> \o ItemList(S \ {m})

\* ------------------------------------------------------ get_db (database.py)
\* Leaving `async with AsyncSessionLocal()` closes the session: whatever was
\* not committed, flushed or not, is rolled back.
SessionExitCommits(db, ss) ==
    [db EXCEPT
       !.products = [p \in Products |->
                       IF p \in ss.dirty THEN [@[p] EXCEPT !.stock = ss.stock[p]]
                       ELSE @[p]],
       !.coupons = {IF c.id = ss.coupon_id
                    THEN [c EXCEPT !.usage_count = <<ss.usage_count>>] ELSE c : c \in @}]

SessionExit(db, ss) == db

CloseSession(s) ==
    /\ sess[s].pc \in {"return", "raise"}
    /\ Persist(SessionExit(DB, sess[s]))
    /\ sess' = [sess EXCEPT ![s] = IdleSession]
    /\ resp' = [resp EXCEPT ![s] = NoResp]
    /\ UNCHANGED <<fixed, seq>>

\* --------------------------------------------------- cart.py: cart items
\* get_or_create_cart followed by the body of add_to_cart
add_to_cart(u, p, q) ==
    /\ Cardinality(CartsOf(u)) <= 1
    /\ LET created == CartsOf(u) = {}
           cart == IF created THEN [id |-> seq.cart + 1, user_id |-> u]
                   ELSE CHOOSE c \in CartsOf(u) : TRUE
           existing == {i \in ItemsOf(cart) : i.product_id = p}
       IN /\ carts' = carts \cup {cart}
          /\ IF existing # {}
             THEN LET e == CHOOSE i \in existing : \A j \in existing : i.id <= j.id
                  IN /\ cart_items' = (cart_items \ {e})
                            \cup {[e EXCEPT !.quantity = e.quantity + q]}
                     /\ seq' = [seq EXCEPT !.cart = IF created THEN @ + 1 ELSE @]
             ELSE /\ cart_items' = cart_items \cup
                        {[id |-> seq.item + 1, cart_id |-> cart.id,
                          product_id |-> p, quantity |-> q]}
                  /\ seq' = [seq EXCEPT !.cart = IF created THEN @ + 1 ELSE @,
                                        !.item = @ + 1]
    /\ UNCHANGED <<products, orders, order_items, coupons, cart_settings, fixed,
                   sess, resp>>

\* the lookup by the item id alone
OwnItemAnyCart(u, item_id) == {i \in cart_items : i.id = item_id}

\* select(CartItem).join(Cart).where(CartItem.id == item_id, Cart.user_id == user)
OwnItem(u, item_id) ==
    {i \in cart_items : i.id = item_id /\ \E c \in CartsOf(u) : c.id = i.cart_id}

remove_item(u, item_id) ==
    /\ cart_items' = cart_items \ OwnItem(u, item_id)
    /\ UNCHANGED <<products, carts, orders, order_items, coupons, cart_settings,
                   fixed, seq, sess, resp>>

update_cart_item_quantity(u, item_id, qty) ==
    /\ IF qty > 0
       THEN cart_items' = (cart_items \ OwnItem(u, item_id))
                \cup {[i EXCEPT !.quantity = qty] : i \in OwnItem(u, item_id)}
       ELSE cart_items' = cart_items \ OwnItem(u, item_id)
    /\ UNCHANGED <<products, carts, orders, order_items, coupons, cart_settings,
                   fixed, seq, sess, resp>>

\* DELETE /cart/item/{item_id}, lines 67-84, with its response: 404 unless
\* the item is in a cart of the user, else the item is deleted and committed.
RemoveItemRequest(s, u, item_id) ==
    /\ Idle(s)
    /\ LET found == OwnItem(u, item_id)
           loaded == [IdleSession EXCEPT !.op = "remove_item", !.user = u,
                         !.item_id = item_id, !.pre = DB]
       IN IF found = {}
          THEN /\ sess' = [sess EXCEPT ![s] = [loaded EXCEPT !.pc = "raise"]]
               /\ resp' = [resp EXCEPT ![s] = Reply(404, "Item not found")]
               /\ UNCHANGED cart_items
          ELSE /\ cart_items' = cart_items \ found
               /\ sess' = [sess EXCEPT ![s] = [loaded EXCEPT !.pc = "return"]]
               /\ resp' = [resp EXCEPT ![s] = Reply(200, "Item removed")]
    /\ UNCHANGED <<products, carts, orders, order_items, coupons, cart_settings,
                   fixed, seq>>

\* PATCH /cart/item/{item_id}, lines 87-117, with its response: 404 unless
\* the item is in a cart of the user; a qty above 0 is stored, any other
\* deletes the item; commit.
UpdateQuantityRequest(s, u, item_id, qty) ==
    /\ Idle(s)
    /\ LET found == OwnItem(u, item_id)
           loaded == [IdleSession EXCEPT !.op = "update_cart_item_quantity",
                         !.user = u, !.item_id = item_id, !.quantity = qty, !.pre = DB]
       IN IF found = {}
          THEN /\ sess' = [sess EXCEPT ![s] = [loaded EXCEPT !.pc = "raise"]]
               /\ resp' = [resp EXCEPT ![s] = Reply(404, "Item not found in cart")]
               /\ UNCHANGED cart_items
          ELSE IF qty > 0
          THEN /\ cart_items' = (cart_items \ found)
                      \cup {[i EXCEPT !.quantity = qty] : i \in found}
               /\ sess' = [sess EXCEPT ![s] = [loaded EXCEPT !.pc = "return"]]
               /\ resp' = [resp EXCEPT ![s] = Reply(200, "Quantity updated")]
          ELSE /\ cart_items' = cart_items \ found
               /\ sess' = [sess EXCEPT ![s] = [loaded EXCEPT !.pc = "return"]]
               /\ resp' = [resp EXCEPT ![s] = Reply(200, "Item removed")]
    /\ UNCHANGED <<products, carts, orders, order_items, coupons, cart_settings,
                   fixed, seq>>

\* ------------------------------------- cart.py: the cart requests in steps
\* get_or_create_cart, lines 15-21, at the start of view_cart (op
\* "view_cart") and of add_to_cart (op "add_to_cart", product p, quantity q):
\* the SELECT of the user's cart.  scalar_one_or_none raises on two rows.
get_or_create_cart(s, u, op, p, q) ==
    /\ Idle(s)
    /\ LET cs == CartsOf(u)
           cart == CHOOSE c \in cs : TRUE
           loaded == [IdleSession EXCEPT !.op = op, !.user = u, !.product_id = p,
                         !.quantity = q, !.pre = DB]
       IN IF Cardinality(cs) > 1
          THEN /\ sess' = [sess EXCEPT ![s] = [loaded EXCEPT !.pc = "raise"]]
               /\ resp' = [resp EXCEPT ![s] = Reply(500, "MultipleResultsFound")]
          ELSE IF cs = {}
          THEN /\ sess' = [sess EXCEPT ![s] = [loaded EXCEPT !.pc = "create_cart"]]
               /\ resp' = [resp EXCEPT ![s] = NoResp]
          ELSE /\ sess' = [sess EXCEPT ![s] = [loaded EXCEPT
                              !.cart_id = cart.id, !.items = ItemsOf(cart),
                              !.pc = IF op = "view_cart" THEN "return" ELSE "add_item"]]
               /\ resp' = [resp EXCEPT ![s] =
                              IF op = "view_cart" THEN Reply(200, "") ELSE NoResp]
    /\ UNCHANGED <<products, carts, cart_items, orders, order_items, coupons,
                   cart_settings, fixed, seq>>

\* get_or_create_cart, lines 23-29: no cart was found; a Cart row is inserted
\* and committed (carts.user_id carries no unique constraint).
CreateCart(s) ==
    /\ sess[s].pc = "create_cart"
    /\ carts' = carts \cup {[id |-> seq.cart + 1, user_id |-> sess[s].user]}
    /\ seq' = [seq EXCEPT !.cart = @ + 1]
    /\ sess' = [sess EXCEPT ![s].cart_id = seq.cart + 1,
                            ![s].pc = IF sess[s].op = "view_cart"
                                      THEN "return" ELSE "add_item"]
    /\ resp' = [resp EXCEPT ![s] =
                   IF sess[s].op = "view_cart" THEN Reply(200, "") ELSE NoResp]
    /\ UNCHANGED <<products, cart_items, orders, order_items, coupons,
                   cart_settings, fixed>>

\* add_to_cart without the search for the item already in the cart
AddItemCommitInsertOnly(s) ==
    /\ sess[s].op = "add_to_cart" /\ sess[s].pc = "add_item"
    /\ cart_items' = cart_items \cup
            {[id |-> seq.item + 1, cart_id |-> sess[s].cart_id,
              product_id |-> sess[s].product_id, quantity |-> sess[s].quantity]}
    /\ seq' = [seq EXCEPT !.item = @ + 1]
    /\ sess' = [sess EXCEPT ![s].pc = "return"]
    /\ resp' = [resp EXCEPT ![s] = Reply(200, "Item added to cart")]
    /\ UNCHANGED <<products, carts, orders, order_items, coupons, cart_settings,
                   fixed>>

\* add_to_cart, lines 54-65, on the cart as it was loaded: the quantity of
\* the item of that product is raised, or a CartItem is inserted; commit.
\* The UPDATE writes the value computed from the loaded quantity and fails
\* (StaleDataError) when the row is gone.
AddItemCommit(s) ==
    /\ sess[s].op = "add_to_cart" /\ sess[s].pc = "add_item"
    /\ LET existing == {i \in sess[s].items : i.product_id = sess[s].product_id}
           e == CHOOSE i \in existing : \A j \in existing : i.id <= j.id
       IN IF existing # {} /\ ~\E i \in cart_items : i.id = e.id
          THEN /\ sess' = [sess EXCEPT ![s].pc = "raise"]
               /\ resp' = [resp EXCEPT ![s] = Reply(500, "StaleDataError")]
               /\ UNCHANGED <<cart_items, seq>>
          ELSE /\ IF existing # {}
                  THEN /\ cart_items' = {i \in cart_items : i.id # e.id}
                              \cup {[e EXCEPT !.quantity = e.quantity + sess[s].quantity]}
                       /\ UNCHANGED seq
                  ELSE /\ cart_items' = cart_items \cup
                              {[id |-> seq.item + 1, cart_id |-> sess[s].cart_id,
                                product_id |-> sess[s].product_id,
                                quantity |-> sess[s].quantity]}
                       /\ seq' = [seq EXCEPT !.item = @ + 1]
               /\ sess' = [sess EXCEPT ![s].pc = "return"]
               /\ resp' = [resp EXCEPT ![s] = Reply(200, "Item added to cart")]
    /\ UNCHANGED <<products, carts, orders, order_items, coupons, cart_settings,
                   fixed>>

\* ------------------------------------------------ orders.py: place_order
\* The for loop over cart.items (lines 35-53), run on the loaded objects.
\* The loop with the stock check left out.
RECURSIVE CheckoutLoopNoCheck(_, _)
CheckoutLoopNoCheck(items, acc) ==
    IF items = <<>> THEN acc
    ELSE LET item == Head(items)
             pid  == item.product_id
         IN CheckoutLoopNoCheck(Tail(items),
                   [acc EXCEPT
                      !.total_amount = @ + products[pid].price * item.quantity,
                      !.stock[pid] = @ - item.quantity,
                      !.dirty = IF item.quantity # 0 THEN @ \cup {pid} ELSE @,
                      !.order_items = Append(@,
                          [product_id |-> pid, quantity |-> item.quantity,
                           price_at_purchase |-> products[pid].price])])

\* The loop adding the unit price, not price * quantity, to the total.
RECURSIVE CheckoutLoopUnitPrice(_, _)
CheckoutLoopUnitPrice(items, acc) ==
    IF items = <<>> THEN acc
    ELSE LET item == Head(items)
             pid  == item.product_id
         IN IF acc.stock[pid] < item.quantity
            THEN [acc EXCEPT !.ok = FALSE]
            ELSE CheckoutLoopUnitPrice(Tail(items),
                   [acc EXCEPT
                      !.total_amount = @ + products[pid].price,
                      !.stock[pid] = @ - item.quantity,
                      !.dirty = IF item.quantity # 0 THEN @ \cup {pid} ELSE @,
                      !.order_items = Append(@,
                          [product_id |-> pid, quantity |-> item.quantity,
                           price_at_purchase |-> products[pid].price])])

\* The loop storing the line total as price_at_purchase.
RECURSIVE CheckoutLoopLineTotal(_, _)
CheckoutLoopLineTotal(items, acc) ==
    IF items = <<>> THEN acc
    ELSE LET item == Head(items)
             pid  == item.product_id
         IN IF acc.stock[pid] < item.quantity
            THEN [acc EXCEPT !.ok = FALSE]
            ELSE CheckoutLoopLineTotal(Tail(items),
                   [acc EXCEPT
                      !.total_amount = @ + products[pid].price * item.quantity,
                      !.stock[pid] = @ - item.quantity,
                      !.dirty = IF item.quantity # 0 THEN @ \cup {pid} ELSE @,
                      !.order_items = Append(@,
                          [product_id |-> pid, quantity |-> item.quantity,
                           price_at_purchase |-> products[pid].price * item.quantity])])

RECURSIVE CheckoutLoop(_, _)
CheckoutLoop(items, acc) ==
    IF items = <<>> THEN acc
    ELSE LET item == Head(items)
             pid  == item.product_id
         IN IF acc.stock[pid] < item.quantity
            THEN [acc EXCEPT !.ok = FALSE]
            ELSE CheckoutLoop(Tail(items),
                   [acc EXCEPT
                      !.total_amount = @ + products[pid].price * item.quantity,
                      !.stock[pid] = @ - item.quantity,
                      !.dirty = IF item.quantity # 0 THEN @ \cup {pid} ELSE @,
                      !.order_items = Append(@,
                          [product_id |-> pid, quantity |-> item.quantity,
                           price_at_purchase |-> products[pid].price])])

\* the test of line 28 with `not cart` alone
CartIsEmptyNoCart(cart, items) == cart.id = 0

\* Line 28: `not cart or not cart.items`; the cart that is None has id 0 here.
CartIsEmpty(cart, items) == cart.id = 0 \/ items = {}

\* Lines 20-53: load the cart, reject an empty one, run the loop.
\* scalars().first() takes the first row of a SELECT without ORDER BY: any
\* of the user's carts, None when there is none.
PlaceOrderBegin(s, u) ==
    /\ Idle(s)
    /\ \E cart \in IF CartsOf(u) = {} THEN {[id |-> 0, user_id |-> u]} ELSE CartsOf(u) :
       LET items == ItemsOf(cart)
           r == CheckoutLoop(ItemList(items),
                    [ok |-> TRUE, total_amount |-> 0,
                     stock |-> [p \in Products |-> products[p].stock],
                     dirty |-> {}, order_items |-> <<>>])
           loaded == [IdleSession EXCEPT !.op = "place_order", !.user = u,
                         !.cart_id = cart.id, !.items = items, !.pre = DB]
       IN IF CartIsEmpty(cart, items)
          THEN /\ sess' = [sess EXCEPT ![s] = [loaded EXCEPT !.pc = "raise"]]
               /\ resp' = [resp EXCEPT ![s] = Reply(400, "Cart is empty")]
          ELSE IF ~r.ok
          THEN /\ sess' = [sess EXCEPT ![s] = [loaded EXCEPT !.pc = "raise",
                                !.stock = r.stock, !.dirty = r.dirty]]
               /\ resp' = [resp EXCEPT ![s] = Reply(400, "Out of stock")]
          ELSE /\ sess' = [sess EXCEPT ![s] = [loaded EXCEPT !.pc = "flush",
                                !.stock = r.stock, !.dirty = r.dirty,
                                !.total_amount = r.total_amount,
                                !.order_items = r.order_items]]
               /\ resp' = [resp EXCEPT ![s] = NoResp]
    /\ UNCHANGED <<products, carts, cart_items, orders, order_items, coupons,
                   cart_settings, fixed, seq>>

\* An UPDATE of a row waits while another transaction holds an uncommitted
\* UPDATE of that row.
StockLocked(s, p) ==
    \E t \in Sessions \ {s} : sess[t].flushed /\ p \in sess[t].dirty

\* The order row and the stock UPDATEs that flush() sends stay inside the
\* transaction: the committed tables are as before.
FlushAutocommit(db, ss, id) ==
    [db EXCEPT
       !.products = [p \in Products |->
                       IF p \in ss.dirty THEN [@[p] EXCEPT !.stock = ss.stock[p]]
                       ELSE @[p]],
       !.orders = @ \cup {[id |-> id, user_id |-> ss.user,
                           total_amount |-> ss.total_amount, status |-> "Pending"]}]

Flush(db, ss, id) == db

\* Lines 56-65: db.add(new_order); await db.flush().
PlaceOrderFlush(s) ==
    /\ sess[s].op = "place_order" /\ sess[s].pc = "flush"
    /\ \A p \in sess[s].dirty : ~StockLocked(s, p)
    /\ seq' = [seq EXCEPT !.order = @ + 1]
    /\ Persist(Flush(DB, sess[s], seq.order + 1))
    /\ sess' = [sess EXCEPT ![s].pc = "commit", ![s].flushed = TRUE,
                            ![s].order_id = seq.order + 1]
    /\ UNCHANGED <<fixed, resp>>

\* The commit of place_order that also takes the applied coupon off the
\* user's CartSettings.
PlaceOrderWritesClearsCoupon(db, ss) ==
    [db EXCEPT
       !.products = [p \in Products |->
                       IF p \in ss.dirty THEN [@[p] EXCEPT !.stock = ss.stock[p]]
                       ELSE @[p]],
       !.orders = @ \cup {[id |-> ss.order_id, user_id |-> ss.user,
                           total_amount |-> ss.total_amount, status |-> "Pending"]},
       !.order_items = @ \cup
            {[order_id |-> ss.order_id, n |-> k,
              product_id |-> ss.order_items[k].product_id,
              quantity |-> ss.order_items[k].quantity,
              price_at_purchase |-> ss.order_items[k].price_at_purchase]
               : k \in 1 .. Len(ss.order_items)},
       !.cart_items = {i \in @ : \A j \in ss.items : j.id # i.id},
       !.cart_settings = {IF st.user_id = ss.user THEN [st EXCEPT !.coupon_applied = Null]
                          ELSE st : st \in @}]

\* What the transaction of place_order has written when it commits
\* (lines 45, 64-74): UPDATE products SET stock = <the object's value>,
\* INSERT the order and its items, DELETE the loaded cart items.
PlaceOrderWrites(db, ss) ==
    [db EXCEPT
       !.products = [p \in Products |->
                       IF p \in ss.dirty THEN [@[p] EXCEPT !.stock = ss.stock[p]]
                       ELSE @[p]],
       !.orders = @ \cup {[id |-> ss.order_id, user_id |-> ss.user,
                           total_amount |-> ss.total_amount, status |-> "Pending"]},
       !.order_items = @ \cup
            {[order_id |-> ss.order_id, n |-> k,
              product_id |-> ss.order_items[k].product_id,
              quantity |-> ss.order_items[k].quantity,
              price_at_purchase |-> ss.order_items[k].price_at_purchase]
               : k \in 1 .. Len(ss.order_items)},
       !.cart_items = {i \in @ : \A j \in ss.items : j.id # i.id}]

\* Lines 67-77: link the items, delete the cart items, await db.commit().
PlaceOrderCommit(s) ==
    /\ sess[s].op = "place_order" /\ sess[s].pc = "commit"
    /\ Persist(PlaceOrderWrites(DB, sess[s]))
    /\ sess' = [sess EXCEPT ![s].pc = "return", ![s].flushed = FALSE,
                            ![s].dirty = {}]
    /\ resp' = [resp EXCEPT ![s] = [Reply(201, "Pending") EXCEPT
                                        !.order_id = sess[s].order_id]]
    /\ UNCHANGED <<fixed, seq>>

\* A statement of the flush or of the commit fails: the exception leaves the
\* handler and the session is closed with its transaction open.
PlaceOrderFail(s) ==
    /\ sess[s].op = "place_order" /\ sess[s].pc \in {"flush", "commit"}
    /\ sess' = [sess EXCEPT ![s].pc = "raise"]
    /\ resp' = [resp EXCEPT ![s] = Reply(500, "Internal Server Error")]
    /\ UNCHANGED <<products, carts, cart_items, orders, order_items, coupons,
                   cart_settings, fixed, seq>>

\* ---------------------------------------- orders.py: update_order_status
\* users.is_superuser (models.py): the accounts init_db creates as admins
Admins == {"a1"}

\* every account passes for an admin
is_superuser_everyone(u) == TRUE

is_superuser(u) == u \in Admins

\* schemas.OrderStatusUpdate.validate_status: the values the body may carry
valid_statuses == {"Pending", "Processing", "Packed", "Shipped", "Delivered", "Cancelled"}

validate_status(v) == v \in valid_statuses

\* PATCH /orders/{order_id}/status.  The body is validated before the
\* handler runs (422); then lines 157-179: 403 unless superuser, 404 unless
\* the order exists, else the status is overwritten and committed.
update_order_status(s, u, order_id, status) ==
    /\ Idle(s)
    /\ LET found == {o \in orders : o.id = order_id}
           loaded == [IdleSession EXCEPT !.op = "update_order_status", !.user = u,
                         !.order_id = order_id, !.input = status, !.pre = DB]
       IN IF ~validate_status(status)
          THEN /\ sess' = [sess EXCEPT ![s] = [loaded EXCEPT !.pc = "raise"]]
               /\ resp' = [resp EXCEPT ![s] = Reply(422, "Status must be one of")]
               /\ UNCHANGED orders
          ELSE IF ~is_superuser(u)
          THEN /\ sess' = [sess EXCEPT ![s] = [loaded EXCEPT !.pc = "raise"]]
               /\ resp' = [resp EXCEPT ![s] =
                              Reply(403, "Only admin can update order status")]
               /\ UNCHANGED orders
          ELSE IF found = {}
          THEN /\ sess' = [sess EXCEPT ![s] = [loaded EXCEPT !.pc = "raise"]]
               /\ resp' = [resp EXCEPT ![s] = Reply(404, "Order not found")]
               /\ UNCHANGED orders
          ELSE /\ orders' = {IF o.id = order_id THEN [o EXCEPT !.status = status]
                              ELSE o : o \in orders}
               /\ sess' = [sess EXCEPT ![s] = [loaded EXCEPT !.pc = "return"]]
               /\ resp' = [resp EXCEPT ![s] =
                              [Reply(200, status) EXCEPT !.order_id = order_id]]
    /\ UNCHANGED <<products, carts, cart_items, order_items, coupons,
                   cart_settings, fixed, seq>>

\* -------------------------------------- cart_service.py: pricing, coupons
\* round(x, 2) of an amount given as n/d of the money unit, ties to even
RoundDiv(n, d) ==
    LET q == n \div d
        r == n % d
    IN IF 2 * r < d THEN q
       ELSE IF 2 * r > d THEN q + 1
       ELSE IF q % 2 = 0 THEN q ELSE q + 1

Round2(x) == RoundDiv(x, 100) * 100

Min(a, b) == IF a <= b THEN a ELSE b

\* calculate_shipping with the threshold itself still charged
calculate_shipping_above(subtotal, u) ==
    IF subtotal > Rs(FREE_SHIPPING_OVER) THEN 0
    ELSE IF \E r \in coupon_usages : r.user_id = u /\ r.coupon_type = "free_shipping"
         THEN 0
         ELSE Rs(STANDARD_SHIPPING)

\* calculate_shipping, lines 12-32
calculate_shipping(subtotal, u) ==
    IF subtotal >= Rs(FREE_SHIPPING_OVER) THEN 0
    ELSE IF \E r \in coupon_usages : r.user_id = u /\ r.coupon_type = "free_shipping"
         THEN 0
         ELSE Rs(STANDARD_SHIPPING)

\* calculate_tax, lines 34-38
calculate_tax(subtotal, discount) ==
    RoundDiv((subtotal - discount) * GST_PERCENT, 10000) * 100

Raise(kind, msg) ==
    [error |-> kind, detail |-> msg, discount |-> 0, discount_type |-> "",
     code |-> "", coupon_id |-> 0, usage_count |-> 0]

\* apply_coupon lines 59-71 with the expiry test letting the last day fail
CouponChecksExpiryInclusive(c, subtotal) ==
    IF StrTruthy(c.expiry_date) /\ ~StrLess(IsoDate(today), Val(c.expiry_date))
    THEN "Coupon has expired"
    ELSE IF subtotal < OrZero(c.min_cart_value) THEN "Minimum cart value required"
    ELSE IF Truthy(c.usage_count) /\ Val(c.usage_count) >= USAGE_LIMIT
    THEN "Coupon usage limit reached"
    ELSE ""

\* apply_coupon lines 59-71 with the ceiling test off by one
CouponChecksCeilingLate(c, subtotal) ==
    IF StrTruthy(c.expiry_date) /\ StrLess(Val(c.expiry_date), IsoDate(today))
    THEN "Coupon has expired"
    ELSE IF subtotal < OrZero(c.min_cart_value) THEN "Minimum cart value required"
    ELSE IF Truthy(c.usage_count) /\ Val(c.usage_count) > USAGE_LIMIT
    THEN "Coupon usage limit reached"
    ELSE ""

\* apply_coupon lines 59-71: the checks on the coupon found, in their order;
\* the message of the ValueError raised, "" when every check passes
CouponChecks(c, subtotal) ==
    IF StrTruthy(c.expiry_date) /\ StrLess(Val(c.expiry_date), IsoDate(today))
    THEN "Coupon has expired"
    ELSE IF subtotal < OrZero(c.min_cart_value) THEN "Minimum cart value required"
    ELSE IF Truthy(c.usage_count) /\ Val(c.usage_count) >= USAGE_LIMIT
    THEN "Coupon usage limit reached"
    ELSE ""

\* apply_coupon lines 73-79 with the fixed amount not held to the subtotal
CouponDiscountFixedWhole(c, subtotal) ==
    IF c.discount_type = "percentage"
    THEN IF Truthy(c.max_discount)
         THEN Min((subtotal * c.value) \div 100, Val(c.max_discount))
         ELSE (subtotal * c.value) \div 100
    ELSE c.value

\* apply_coupon lines 73-79: value is a percentage for a percentage coupon
\* and an amount otherwise
CouponDiscount(c, subtotal) ==
    IF c.discount_type = "percentage"
    THEN IF Truthy(c.max_discount)
         THEN Min((subtotal * c.value) \div 100, Val(c.max_discount))
         ELSE (subtotal * c.value) \div 100
    ELSE Min(c.value, subtotal)

\* apply_coupon with the increment of usage_count forgotten
apply_coupon_no_increment(code, subtotal) ==
    LET found == {c \in coupons : c.code = Upper(code) /\ c.is_active}
        c == CHOOSE x \in found : TRUE
    IN IF Cardinality(found) > 1 THEN Raise("MultipleResultsFound", "")
       ELSE IF found = {} THEN Raise("ValueError", "Invalid coupon code")
       ELSE IF CouponChecks(c, subtotal) # ""
            THEN Raise("ValueError", CouponChecks(c, subtotal))
       ELSE [error |-> "", detail |-> "",
             discount |-> CouponDiscount(c, subtotal),
             discount_type |-> c.discount_type,
             code |-> c.code,
             coupon_id |-> c.id,
             usage_count |-> OrZero(c.usage_count)]

\* apply_coupon, lines 41-88.  The result carries the Coupon object the
\* session now holds with its usage_count raised.
apply_coupon(code, subtotal) ==
    LET found == {c \in coupons : c.code = Upper(code) /\ c.is_active}
        c == CHOOSE x \in found : TRUE
    IN IF Cardinality(found) > 1 THEN Raise("MultipleResultsFound", "")
       ELSE IF found = {} THEN Raise("ValueError", "Invalid coupon code")
       ELSE IF CouponChecks(c, subtotal) # ""
            THEN Raise("ValueError", CouponChecks(c, subtotal))
       ELSE [error |-> "", detail |-> "",
             discount |-> CouponDiscount(c, subtotal),
             discount_type |-> c.discount_type,
             code |-> c.code,
             coupon_id |-> c.id,
             usage_count |-> OrZero(c.usage_count) + 1]

\* The UPDATE of the changed Coupon waits for another transaction's
\* uncommitted UPDATE of the row.
CouponLocked(s, id) ==
    \E t \in Sessions \ {s} : sess[t].flushed /\ sess[t].coupon_id = id

\* get_cart_summary lines 123-129 without the except clause
TryApplyCouponRaises(code, subtotal) ==
    IF IsNull(code) \/ code = <<"">> THEN Raise("", "")
    ELSE apply_coupon(Val(code), subtotal)

\* get_cart_summary lines 119-129: the coupon is tried, a ValueError is
\* swallowed and leaves discount = 0
TryApplyCoupon(code, subtotal) ==
    IF IsNull(code) \/ code = <<"">> THEN Raise("", "")
    ELSE LET r == apply_coupon(Val(code), subtotal)
         IN IF r.error = "ValueError" THEN Raise("", "") ELSE r

SettingsOf(u) == {st \in cart_settings : st.user_id = u}

\* get_cart_summary with the tax taken on the subtotal before the discount
SummaryOfTaxBeforeDiscount(items, u, r) ==
    LET subtotal == Subtotal(items)
        shipping == calculate_shipping(subtotal, u)
        tax == calculate_tax(subtotal, 0)
        total == subtotal - r.discount + shipping + tax
    IN [subtotal |-> Round2(subtotal), shipping |-> Round2(shipping),
        tax |-> Round2(tax), discount |-> Round2(r.discount),
        total |-> Round2(total), item_count |-> Cardinality(items),
        is_free_shipping |-> shipping = 0]

\* CartService.get_cart_summary, lines 97-157, for a cart with items
SummaryOf(items, u, r) ==
    LET subtotal == Subtotal(items)
        shipping == calculate_shipping(subtotal, u)
        tax == calculate_tax(subtotal, r.discount)
        total == subtotal - r.discount + shipping + tax
    IN [subtotal |-> Round2(subtotal), shipping |-> Round2(shipping),
        tax |-> Round2(tax), discount |-> Round2(r.discount),
        total |-> Round2(total), item_count |-> Cardinality(items),
        is_free_shipping |-> shipping = 0]

\* GET /cart/summary (cart.py lines 122-141) and GET /cart/full (lines
\* 229-277): the stored coupon code is read and the service computes the
\* summary; nothing is committed.  The Coupon changed by apply_coupon is
\* flushed by the next query of the session.
CartSummary(s, u, op) ==
    /\ Idle(s)
    /\ Cardinality(CartsOf(u)) <= 1 /\ Cardinality(SettingsOf(u)) <= 1
    /\ LET code == IF SettingsOf(u) = {} THEN Null
                   ELSE (CHOOSE st \in SettingsOf(u) : TRUE).coupon_applied
           items == UNION {ItemsOf(c) : c \in CartsOf(u)}
           r == TryApplyCoupon(code, Subtotal(items))
           loaded == [IdleSession EXCEPT !.op = op, !.user = u, !.items = items,
                         !.pre = DB]
       IN IF items = {}
          THEN /\ sess' = [sess EXCEPT ![s] = [loaded EXCEPT !.pc = "return"]]
               /\ resp' = [resp EXCEPT ![s] = Reply(200, "")]
          ELSE IF r.error # ""
          THEN /\ sess' = [sess EXCEPT ![s] = [loaded EXCEPT !.pc = "raise"]]
               /\ resp' = [resp EXCEPT ![s] = Reply(500, r.error)]
          ELSE /\ ~CouponLocked(s, r.coupon_id)
               /\ sess' = [sess EXCEPT ![s] = [loaded EXCEPT !.pc = "return",
                              !.coupon_id = r.coupon_id,
                              !.usage_count = r.usage_count,
                              !.flushed = r.coupon_id # 0]]
               /\ resp' = [resp EXCEPT ![s] =
                              [Reply(200, "") EXCEPT !.summary = SummaryOf(items, u, r)]]
    /\ UNCHANGED <<products, carts, cart_items, orders, order_items, coupons,
                   cart_settings, fixed, seq>>

\* POST /cart/apply-coupon, cart.py lines 151-163: load the cart, 400 when
\* it has no items, compute the subtotal.
ApplyCouponBegin(s, u, code) ==
    /\ Idle(s)
    /\ Cardinality(CartsOf(u)) <= 1
    /\ LET items == UNION {ItemsOf(c) : c \in CartsOf(u)}
           loaded == [IdleSession EXCEPT !.op = "apply_coupon", !.user = u,
                         !.items = items, !.input = code, !.pre = DB]
       IN IF items = {}
          THEN /\ sess' = [sess EXCEPT ![s] = [loaded EXCEPT !.pc = "raise"]]
               /\ resp' = [resp EXCEPT ![s] = Reply(400, "Cart is empty")]
          ELSE /\ sess' = [sess EXCEPT ![s] = [loaded EXCEPT !.pc = "coupon",
                              !.subtotal = Subtotal(items)]]
               /\ resp' = [resp EXCEPT ![s] = NoResp]
    /\ UNCHANGED <<products, carts, cart_items, orders, order_items, coupons,
                   cart_settings, fixed, seq>>

\* Lines 165-168 and 195-196: CartService.apply_coupon; a ValueError becomes
\* a 400.
ApplyCouponValidate(s) ==
    /\ sess[s].op = "apply_coupon" /\ sess[s].pc = "coupon"
    /\ LET r == apply_coupon(sess[s].input, sess[s].subtotal)
       IN IF r.error = "ValueError"
          THEN /\ sess' = [sess EXCEPT ![s].pc = "raise"]
               /\ resp' = [resp EXCEPT ![s] = Reply(400, r.detail)]
          ELSE IF r.error # ""
          THEN /\ sess' = [sess EXCEPT ![s].pc = "raise"]
               /\ resp' = [resp EXCEPT ![s] = Reply(500, r.error)]
          ELSE /\ sess' = [sess EXCEPT ![s].pc = "settings",
                              ![s].coupon_id = r.coupon_id,
                              ![s].usage_count = r.usage_count,
                              ![s].coupon_code = r.code,
                              ![s].discount = r.discount]
               /\ UNCHANGED resp
    /\ UNCHANGED <<products, carts, cart_items, orders, order_items, coupons,
                   cart_settings, fixed, seq>>

\* Lines 170-174: the query for the CartSettings row; before it the session
\* flushes UPDATE coupons SET usage_count = <the object's value>.
ApplyCouponSettings(s) ==
    /\ sess[s].op = "apply_coupon" /\ sess[s].pc = "settings"
    /\ ~CouponLocked(s, sess[s].coupon_id)
    /\ Cardinality(SettingsOf(sess[s].user)) <= 1
    /\ IF \E c \in coupons : c.id = sess[s].coupon_id
       THEN /\ sess' = [sess EXCEPT ![s].pc = "commit", ![s].flushed = TRUE,
                           ![s].settings_found = SettingsOf(sess[s].user) # {}]
            /\ UNCHANGED resp
       ELSE /\ sess' = [sess EXCEPT ![s].pc = "raise"]
            /\ resp' = [resp EXCEPT ![s] = Reply(500, "StaleDataError")]
    /\ UNCHANGED <<products, carts, cart_items, orders, order_items, coupons,
                   cart_settings, fixed, seq>>

\* What the transaction of apply-coupon has written when it commits.
ApplyCouponWrites(db, ss) ==
    [db EXCEPT
       !.coupons = {IF c.id = ss.coupon_id
                    THEN [c EXCEPT !.usage_count = <<ss.usage_count>>] ELSE c : c \in @},
       !.cart_settings =
            IF ss.settings_found
            THEN {IF st.user_id = ss.user
                  THEN [st EXCEPT !.coupon_applied = <<ss.coupon_code>>] ELSE st : st \in @}
            ELSE @ \cup {[user_id |-> ss.user, coupon_applied |-> <<ss.coupon_code>>]}]

\* Lines 176-193: insert or update the CartSettings row, await db.commit().
ApplyCouponCommit(s) ==
    /\ sess[s].op = "apply_coupon" /\ sess[s].pc = "commit"
    /\ Persist(ApplyCouponWrites(DB, sess[s]))
    /\ sess' = [sess EXCEPT ![s].pc = "return", ![s].flushed = FALSE,
                            ![s].coupon_id = 0]
    /\ resp' = [resp EXCEPT ![s] =
                   [Reply(200, sess[s].coupon_code) EXCEPT
                       !.summary.discount = sess[s].discount]]
    /\ UNCHANGED <<fixed, seq>>

\* ------------------------------------------------ marketing.py: coupons
\* toggle_coupon_status, lines 34-43
toggle_coupon_status(id) ==
    /\ \A s \in Sessions : ~(sess[s].flushed /\ sess[s].coupon_id = id)
    /\ coupons' = {IF c.id = id THEN [c EXCEPT !.is_active = ~c.is_active] ELSE c
                     : c \in coupons}
    /\ UNCHANGED <<products, carts, cart_items, orders, order_items, cart_settings,
                   fixed, seq, sess, resp>>

\* delete_coupon, lines 46-55
delete_coupon(id) ==
    /\ \A s \in Sessions : ~(sess[s].flushed /\ sess[s].coupon_id = id)
    /\ coupons' = {c \in coupons : c.id # id}
    /\ UNCHANGED <<products, carts, cart_items, orders, order_items, cart_settings,
                   fixed, seq, sess, resp>>

\* create_coupon, lines 21-31: when no coupon with exactly this code exists
\* the payload is stored as it came (usage_count stays NULL); otherwise the
\* request is answered 400 and nothing changes.
create_coupon(payload) ==
    /\ {c \in coupons : c.code = payload.code} = {}
    /\ coupons' = coupons \cup
          {[id |-> seq.coupon + 1, code |-> payload.code,
            discount_type |-> payload.discount_type, value |-> payload.value,
            usage_count |-> Null, is_active |-> payload.is_active,
            expiry_date |-> payload.expiry_date,
            min_cart_value |-> <<payload.min_cart_value>>,
            max_discount |-> payload.max_discount]}
    /\ seq' = [seq EXCEPT !.coupon = @ + 1]
    /\ UNCHANGED <<products, carts, cart_items, orders, order_items, cart_settings,
                   fixed, sess, resp>>

\* the date changes
Tick ==
    /\ today < 9 + MaxDays
    /\ today' = today + 1
    /\ UNCHANGED <<products, carts, cart_items, orders, order_items, coupons,
                   cart_settings, coupon_usages, stock0, ratings, product_reviews,
                   seq, sess, resp>>

\* ------------------------------------------- products.py: admin updates
\* update_product, lines 221-242: the fields present in the payload are set.
\* A payload field is <<>> when absent and <<v>> when present.
update_product(p, payload) ==
    /\ products' = [products EXCEPT
                      ![p].price = IF IsNull(payload.price) THEN @ ELSE Val(payload.price),
                      ![p].stock = IF IsNull(payload.stock) THEN @ ELSE Val(payload.stock)]
    /\ UNCHANGED <<carts, cart_items, orders, order_items, coupons, cart_settings,
                   fixed, seq, sess, resp>>

\* bulk_update_products, lines 635-657: every field that is not None is set on
\* every product found; 400 without ids or without data.
bulk_update_products(ids, data) ==
    /\ ids # {}
    /\ ~(IsNull(data.price) /\ IsNull(data.stock))
    /\ products' = [p \in Products |->
                      IF p \in ids
                      THEN [products[p] EXCEPT
                              !.price = IF IsNull(data.price) THEN @ ELSE Val(data.price),
                              !.stock = IF IsNull(data.stock) THEN @ ELSE Val(data.stock)]
                      ELSE products[p]]
    /\ UNCHANGED <<carts, cart_items, orders, order_items, coupons, cart_settings,
                   fixed, seq, sess, resp>>

\* ------------------------------- product_enhanced.py, admin.py: reviews
ReviewsOf(p) == {v \in product_reviews : v.product_id = p}

\* the new average cut off after the first decimal
NewAverageTruncated(a, n, r) == (a * n + 10 * r) \div (n + 1)

\* product_enhanced.py lines 122-126: round((a * n + r) / (n + 1), 1) of the
\* stored average a (in tenths), the stored count n and the rating r
NewAverage(a, n, r) == RoundDiv(a * n + 10 * r, n + 1)

\* POST /products/{product_id}/reviews.  ProductReviewBase bounds the rating
\* to 1..5 (422) before the handler runs; lines 90-133: 404 for no product,
\* 400 when the user has a review of it, else the review is inserted and the
\* product's aggregates are recomputed from the stored ones, in one commit.
add_product_review(s, u, p, r) ==
    /\ Idle(s)
    /\ LET existing == {v \in product_reviews : v.product_id = p /\ v.user_id = u}
           loaded == [IdleSession EXCEPT !.op = "add_product_review", !.user = u,
                         !.product_id = p, !.rating = r, !.pre = DB]
           raise(code, detail) ==
               /\ sess' = [sess EXCEPT ![s] = [loaded EXCEPT !.pc = "raise"]]
               /\ resp' = [resp EXCEPT ![s] = Reply(code, detail)]
               /\ UNCHANGED <<ratings, product_reviews>>
       IN IF r < 1 \/ r > 5
          THEN raise(422, "rating")
          ELSE IF p \notin Products
          THEN raise(404, "Product not found")
          ELSE IF Cardinality(existing) > 1
          THEN raise(500, "MultipleResultsFound")
          ELSE IF existing # {}
          THEN raise(400, "You have already reviewed this product")
          ELSE /\ ratings' = [ratings EXCEPT ![p] =
                      [average_rating |-> NewAverage(@.average_rating, @.review_count, r),
                       review_count |-> @.review_count + 1]]
               /\ product_reviews' = product_reviews \cup
                      {[id |-> Cardinality(product_reviews) + 1, product_id |-> p,
                        user_id |-> u, rating |-> r]}
               /\ sess' = [sess EXCEPT ![s] = [loaded EXCEPT !.pc = "return"]]
               /\ resp' = [resp EXCEPT ![s] = Reply(200, "")]
    /\ UNCHANGED <<products, carts, cart_items, orders, order_items, coupons,
                   cart_settings, coupon_usages, today, stock0, seq>>

\* POST /admin/reviews/manual, admin.py lines 436-453: the review is inserted
\* under the admin's user id and committed; nothing else is read or written.
admin_add_review(s, u, p, r) ==
    /\ Idle(s)
    /\ product_reviews' = product_reviews \cup
           {[id |-> Cardinality(product_reviews) + 1, product_id |-> p,
             user_id |-> u, rating |-> r]}
    /\ sess' = [sess EXCEPT ![s] = [IdleSession EXCEPT !.op = "admin_add_review",
                    !.user = u, !.product_id = p, !.rating = r, !.pre = DB,
                    !.pc = "return"]]
    /\ resp' = [resp EXCEPT ![s] = Reply(200, "Review added successfully")]
    /\ UNCHANGED <<products, carts, cart_items, orders, order_items, coupons,
                   cart_settings, coupon_usages, today, stock0, seq, ratings>>

\* ----------------------------------------------------------------- Init
Init ==
    /\ products \in [Products -> [stock : 0 .. MaxStock, price : {Rs(250)}]]
    /\ stock0 = [p \in Products |-> products[p].stock]
    /\ ratings = [p \in Products |-> [average_rating |-> 0, review_count |-> 0]]
    /\ product_reviews = {}
    /\ carts = {}
    /\ cart_items = {}
    /\ orders = {}
    /\ order_items = {}
    /\ coupons = {}
    /\ cart_settings = {}
    /\ coupon_usages = {}
    /\ today = 9
    /\ seq = [cart |-> 0, item |-> 0, order |-> 0, coupon |-> 0]
    /\ sess = [s \in Sessions |-> IdleSession]
    /\ resp = [s \in Sessions |-> NoResp]

\* ------------------------------------------- requests served one at a time
AddToCart(u, Q) ==
    \E p \in Products, q \in Q :
        /\ add_to_cart(u, p, q)
        /\ seq'.item <= MaxItems
        /\ \A i \in cart_items' : i.quantity \in Quantities

RemoveItem(u) == \E i \in 1 .. seq.item : remove_item(u, i)

UpdateQuantity(u) ==
    \E i \in 1 .. seq.item, q \in Quantities : update_cart_item_quantity(u, i, q)

PlaceOrder(s, u) ==
    /\ seq.order < MaxOrders
    /\ PlaceOrderBegin(s, u)
    /\ \A p \in Products : sess'[s].stock[p] <= MaxStock

Next ==
    \/ AllIdle /\ AddToCart("u1", Quantities)
    \/ AllIdle /\ RemoveItem("u1")
    \/ AllIdle /\ UpdateQuantity("u1")
    \/ AllIdle /\ PlaceOrder("s1", "u1")
    \/ PlaceOrderFlush("s1")
    \/ PlaceOrderCommit("s1")
    \/ PlaceOrderFail("s1")
    \/ CloseSession("s1")

Spec == Init /\ [][Next]_vars

\* every product in stock
InitStocked == Init /\ \A p \in Products : products[p].stock = MaxStock

\* --------------------------------------- the catalog changes between orders
ProductPayloads ==
    {[price |-> <<Rs(600)>>, stock |-> Null], [price |-> <<Rs(250)>>, stock |-> <<MaxStock>>]}

UpdateProduct == \E p \in Products, d \in ProductPayloads : update_product(p, d)

BulkUpdateProducts ==
    \E ids \in {{"p1"}, Products}, d \in ProductPayloads : bulk_update_products(ids, d)

NextCatalog ==
    \/ AllIdle /\ AddToCart("u1", 1 .. MaxQty)
    \/ AllIdle /\ PlaceOrder("s1", "u1")
    \/ PlaceOrderFlush("s1")
    \/ PlaceOrderCommit("s1")
    \/ CloseSession("s1")
    \/ AllIdle /\ UpdateProduct
    \/ AllIdle /\ BulkUpdateProducts

SpecCatalog == InitStocked /\ [][NextCatalog]_vars

\* ------------------------------------------ checkouts of two users interleave
UserOf(s) == IF s = "s1" THEN "u1" ELSE "u2"

NextRace ==
    \/ AllIdle /\ \E u \in Users : AddToCart(u, 1 .. MaxQty)
    \/ \E s \in Sessions : PlaceOrder(s, UserOf(s))
    \/ \E s \in Sessions : PlaceOrderFlush(s)
    \/ \E s \in Sessions : PlaceOrderCommit(s)
    \/ \E s \in Sessions : CloseSession(s)

SpecRace == Init /\ [][NextRace]_vars

\* ------------------------------------------------ coupons, one request at a time
FLAT100 ==
    [id |-> 1, code |-> "FLAT100", discount_type |-> "fixed", value |-> Rs(100),
     usage_count |-> Null, is_active |-> TRUE, expiry_date |-> <<IsoDate(9)>>,
     min_cart_value |-> <<Rs(500)>>, max_discount |-> Null]

SAVE10 ==
    [id |-> 2, code |-> "SAVE10", discount_type |-> "percentage", value |-> 10,
     usage_count |-> <<USAGE_LIMIT - 1>>, is_active |-> TRUE, expiry_date |-> Null,
     min_cart_value |-> Null, max_discount |-> <<Rs(20)>>]

InitCoupon ==
    /\ products = [p \in Products |-> [stock |-> MaxStock, price |-> Rs(250)]]
    /\ stock0 = [p \in Products |-> products[p].stock]
    /\ ratings = [p \in Products |-> [average_rating |-> 0, review_count |-> 0]]
    /\ product_reviews = {}
    /\ carts = {}
    /\ cart_items = {}
    /\ orders = {}
    /\ order_items = {}
    /\ coupons \in {{FLAT100}, {SAVE10}}
    /\ cart_settings = {}
    /\ coupon_usages = {}
    /\ today = 9
    /\ seq = [cart |-> 0, item |-> 0, order |-> 0, coupon |-> 0]
    /\ sess = [s \in Sessions |-> IdleSession]
    /\ resp = [s \in Sessions |-> NoResp]

ApplyCoupon(s, u) ==
    /\ \A c \in coupons : \/ OrZero(c.usage_count) < MaxUses
                          \/ OrZero(c.usage_count) >= USAGE_LIMIT - 1
    /\ \E code \in InputCodes : ApplyCouponBegin(s, u, code)

GetCartSummary(s, u) == CartSummary(s, u, "summary")
GetFullCart(s, u) == CartSummary(s, u, "full_cart")
ToggleCoupon == \E c \in coupons : toggle_coupon_status(c.id)
DeleteCoupon == \E c \in coupons : delete_coupon(c.id)

NextCoupon ==
    \/ AllIdle /\ AddToCart("u1", 1 .. MaxQty)
    \/ AllIdle /\ RemoveItem("u1")
    \/ AllIdle /\ ApplyCoupon("s1", "u1")
    \/ ApplyCouponValidate("s1")
    \/ ApplyCouponSettings("s1")
    \/ ApplyCouponCommit("s1")
    \/ AllIdle /\ GetCartSummary("s1", "u1")
    \/ AllIdle /\ GetFullCart("s1", "u1")
    \/ AllIdle /\ PlaceOrder("s1", "u1")
    \/ PlaceOrderFlush("s1")
    \/ PlaceOrderCommit("s1")
    \/ CloseSession("s1")
    \/ AllIdle /\ ToggleCoupon
    \/ AllIdle /\ DeleteCoupon
    \/ AllIdle /\ Tick

SpecCoupon == InitCoupon /\ [][NextCoupon]_vars

\* ------------------------------------- two users apply a coupon, interleaved
NextCouponRace ==
    \/ AllIdle /\ \E u \in Users : AddToCart(u, {MaxQty})
    \/ \E s \in Sessions : ApplyCoupon(s, UserOf(s))
    \/ \E s \in Sessions : ApplyCouponValidate(s)
    \/ \E s \in Sessions : ApplyCouponSettings(s)
    \/ \E s \in Sessions : ApplyCouponCommit(s)
    \/ \E s \in Sessions : CloseSession(s)

SpecCouponRace == InitCoupon /\ [][NextCouponRace]_vars

\* ------------------------------- the cart requests in steps, one at a time
ViewCart(s, u) == get_or_create_cart(s, u, "view_cart", "", 0)

AddToCartRequest(s, u, Q) ==
    /\ seq.item + Cardinality({t \in Sessions : sess[t].op = "add_to_cart"}) < MaxItems
    /\ \E p \in Products, q \in Q :
          /\ get_or_create_cart(s, u, "add_to_cart", p, q)
          /\ \A i \in sess'[s].items :
                i.product_id = p => i.quantity + q \in Quantities

NextCart ==
    \/ AllIdle /\ ViewCart("s1", "u1")
    \/ AllIdle /\ AddToCartRequest("s1", "u1", Quantities)
    \/ CreateCart("s1")
    \/ AddItemCommit("s1")
    \/ AllIdle /\ RemoveItem("u1")
    \/ AllIdle /\ UpdateQuantity("u1")
    \/ AllIdle /\ PlaceOrder("s1", "u1")
    \/ PlaceOrderFlush("s1")
    \/ PlaceOrderCommit("s1")
    \/ CloseSession("s1")

SpecCart == Init /\ [][NextCart]_vars

\* ------------------------ two requests of the same user run at the same time
NextCartRace ==
    \/ \E s \in Sessions : ViewCart(s, "u1")
    \/ \E s \in Sessions : AddToCartRequest(s, "u1", 1 .. MaxQty)
    \/ \E s \in Sessions : CreateCart(s)
    \/ \E s \in Sessions : AddItemCommit(s)
    \/ \E s \in Sessions : PlaceOrder(s, "u1")
    \/ \E s \in Sessions : PlaceOrderFlush(s)
    \/ \E s \in Sessions : PlaceOrderCommit(s)
    \/ \E s \in Sessions : CloseSession(s)

SpecCartRace == InitStocked /\ [][NextCartRace]_vars

\* ------------------------------------ the validator and the pricing functions
\* over the coupons an admin can store (marketing.py create_coupon, schemas
\* CouponBase) and the carts add_to_cart can build
CouponKinds ==
    {[t |-> "percentage", v |-> 10, m |-> Null],
     [t |-> "percentage", v |-> 10, m |-> <<0>>],
     [t |-> "percentage", v |-> 10, m |-> <<Rs(20)>>],
     [t |-> "fixed", v |-> Rs(100), m |-> Null],
     [t |-> "fixed", v |-> Rs(600), m |-> Null]}

CouponRow(k, usage, expiry, minimum) ==
    [id |-> 1, code |-> "FLAT100", discount_type |-> k.t, value |-> k.v,
     usage_count |-> usage, is_active |-> TRUE, expiry_date |-> expiry,
     min_cart_value |-> minimum, max_discount |-> k.m]

StoredCoupons ==
    {CouponRow(k, u, e, m) :
        k \in {[t |-> "percentage", v |-> 10, m |-> <<Rs(20)>>],
               [t |-> "fixed", v |-> Rs(100), m |-> Null]},
        u \in {Null, <<USAGE_LIMIT - 1>>, <<USAGE_LIMIT>>},
        e \in {Null, <<IsoDate(9)>>, <<IsoDate(10)>>},
        m \in {Null, <<Rs(500)>>}}
    \cup {CouponRow(k, Null, Null, Null) : k \in CouponKinds}
    \cup {[FLAT100 EXCEPT !.is_active = FALSE],
          [FLAT100 EXCEPT !.code = "flat100"],
          [FLAT100 EXCEPT !.discount_type = "flat"],
          [FLAT100 EXCEPT !.expiry_date = <<<<>>>>, !.min_cart_value = <<0>>,
                          !.usage_count = <<0>>]}

InitPricing ==
    /\ products \in [Products -> [stock : {MaxStock}, price : {Rs(250), Rs(500), Rs(600)}]]
    /\ products["p2"].price = Rs(250)
    /\ stock0 = [p \in Products |-> products[p].stock]
    /\ ratings = [p \in Products |-> [average_rating |-> 0, review_count |-> 0]]
    /\ product_reviews = {}
    /\ carts = {[id |-> 1, user_id |-> "u1"]}
    /\ \E q \in Quantities, more \in BOOLEAN :
          cart_items = {[id |-> 1, cart_id |-> 1, product_id |-> "p1", quantity |-> q]}
             \cup IF more /\ q = MaxQty
                  THEN {[id |-> 2, cart_id |-> 1, product_id |-> "p2", quantity |-> 1]}
                  ELSE {}
    /\ orders = {}
    /\ order_items = {}
    /\ \E c \in StoredCoupons : coupons = {c}
    /\ cart_settings \in {{}, {[user_id |-> "u1", coupon_applied |-> <<"FLAT100">>]}}
    /\ coupon_usages \in {{}, {[user_id |-> "u1", coupon_type |-> "free_shipping"]}}
    /\ today = 10
    /\ seq = [cart |-> 1, item |-> 2, order |-> 0, coupon |-> 1]
    /\ sess = [s \in Sessions |-> IdleSession]
    /\ resp = [s \in Sessions |-> NoResp]

NextPricing ==
    \/ AllIdle /\ AddToCart("u1", Quantities)
    \/ AllIdle /\ ApplyCoupon("s1", "u1")
    \/ ApplyCouponValidate("s1")
    \/ ApplyCouponSettings("s1")
    \/ ApplyCouponCommit("s1")
    \/ AllIdle /\ GetCartSummary("s1", "u1")
    \/ CloseSession("s1")

SpecPricing == InitPricing /\ [][NextPricing]_vars

\* --------------------------------- orders are placed and their status is set
\* the statuses a PATCH body may name: the seven of the order lifecycle and
\* one that is none of them
StatusInputs == valid_statuses \cup {"Returned", "Refunded"}

UpdateOrderStatus(s) ==
    \E u \in {"u1"} \cup Admins, id \in 1 .. MaxOrders + 2, st \in StatusInputs :
        update_order_status(s, u, id, st)

\* one order more than MaxOrders, for a second order beside the one updated
PlaceOrders(s, u) ==
    /\ seq.order <= MaxOrders
    /\ PlaceOrderBegin(s, u)

NextOrders ==
    \/ AllIdle /\ AddToCart("u1", {1})
    \/ AllIdle /\ PlaceOrders("s1", "u1")
    \/ PlaceOrderFlush("s1")
    \/ PlaceOrderCommit("s1")
    \/ AllIdle /\ UpdateOrderStatus("s1")
    \/ CloseSession("s1")

SpecOrders == InitStocked /\ [][NextOrders]_vars

\* ------------------------------------------------- products are reviewed
\* the accounts that send reviews
Reviewers == Users \cup Admins \cup {"u3"}

\* the ratings a body may carry: 0 is below the range of ProductReviewBase
RatingInputs == 0 .. 3

AddProductReview(s) ==
    /\ Cardinality(product_reviews) < MaxReviews
    /\ \E u \in Reviewers, p \in {"p1", "p0"}, r \in RatingInputs :
          add_product_review(s, u, p, r)

AdminAddReview(s) ==
    /\ Cardinality(product_reviews) < MaxReviews
    /\ \E u \in Admins, r \in {0, 3} :
          admin_add_review(s, u, "p1", r)

NextReviews ==
    \/ AddProductReview("s1")
    \/ AdminAddReview("s1")
    \/ CloseSession("s1")

SpecReviews == InitStocked /\ [][NextReviews]_vars

\* ---------------------------------------- coupons are created and applied
\* schemas.CouponCreate with the defaults of CouponBase
CouponPayloads ==
    {[code |-> c, discount_type |-> "fixed", value |-> Rs(100), expiry_date |-> Null,
      is_active |-> a, min_cart_value |-> 0, max_discount |-> Null]
        : c \in {"flat100", "FLAT100", "SAVE10"}, a \in BOOLEAN}

CreateCoupon ==
    /\ seq.coupon < MaxCoupons
    /\ \E payload \in CouponPayloads : create_coupon(payload)

NextMarketing ==
    \/ AllIdle /\ AddToCart("u1", {MaxQty})
    \/ AllIdle /\ CreateCoupon
    \/ AllIdle /\ ToggleCoupon
    \/ AllIdle /\ DeleteCoupon
    \/ AllIdle /\ ApplyCoupon("s1", "u1")
    \/ ApplyCouponValidate("s1")
    \/ ApplyCouponSettings("s1")
    \/ ApplyCouponCommit("s1")
    \/ CloseSession("s1")

SpecMarketing == InitStocked /\ [][NextMarketing]_vars

\* ------------------------------------- two users change their cart items
RemoveItemOf(s) ==
    \E u \in Users, i \in 1 .. seq.item + 1 : RemoveItemRequest(s, u, i)

UpdateQuantityOf(s) ==
    \E u \in Users, i \in 1 .. seq.item + 1, q \in 0 .. MaxQty :
        UpdateQuantityRequest(s, u, i, q)

NextOwnership ==
    \/ AllIdle /\ \E u \in Users : AddToCart(u, 1 .. MaxQty)
    \/ AllIdle /\ RemoveItemOf("s1")
    \/ AllIdle /\ UpdateQuantityOf("s1")
    \/ CloseSession("s1")

SpecOwnership == InitStocked /\ [][NextOwnership]_vars
\* ===================================================== checkout properties
\* the cart items of user u in the tables db
CartItemsIn(db, u) ==
    {i \in db.cart_items : \E c \in db.carts : c.user_id = u /\ c.id = i.cart_id}

\* the quantity of product p in the cart items
QuantityOf(items, p) ==
    Sum({[id |-> i.id, n |-> i.quantity] : i \in {j \in items : j.product_id = p}})

\* sum of price * quantity at the prices of db
RawTotal(db, items) ==
    Sum({[id |-> i.id, n |-> db.products[i.product_id].price * i.quantity] : i \in items})

Begins(s, op) == Idle(s) /\ sess'[s].op = op
Commits(s, op) == sess[s].op = op /\ sess[s].pc = "commit" /\ sess'[s].pc = "return"
OutOfStock(s) == sess[s].op = "place_order" /\ resp[s].detail = "Out of stock"

\* C1: a checkout of a cart in which some item has product.stock < quantity is
\* answered 400 "Out of stock", and from that answer until the request's session
\* is closed (the close included) the tables are what they were when the
\* request began: no stock decremented, no order, no order item, no cart item
\* deleted.
C1_OutOfStockLeavesNoTrace ==
    [][\A s \in Sessions :
         /\ (Begins(s, "place_order")
               /\ \E i \in CartItemsIn(DB, sess'[s].user) :
                      products[i.product_id].stock < i.quantity)
            => (resp'[s].code = 400 /\ resp'[s].detail = "Out of stock")
         /\ OutOfStock(s)' => DB' = DB
         /\ OutOfStock(s) => (DB = sess[s].pre /\ DB' = sess[s].pre)]_vars

\* an item before the failing one passed the check and had its stock lowered
C1_Witness ==
    \E s \in Sessions : OutOfStock(s) /\ sess[s].dirty # {}

\* C2: a checkout of a non-empty cart whose items all have stock >= quantity
\* goes on to the flush, and its commit adds exactly one order, Pending, with
\* total = sum of price * quantity, adds one order item per cart item with its
\* product and quantity, lowers every product's stock by the quantity in the
\* cart, and leaves the user's cart empty.
C2_CheckoutPostcondition ==
    [][\A s \in Sessions :
         /\ (Begins(s, "place_order")
               /\ CartItemsIn(DB, sess'[s].user) # {}
               /\ \A i \in CartItemsIn(DB, sess'[s].user) :
                      products[i.product_id].stock >= i.quantity)
            => sess'[s].pc = "flush"
         /\ Commits(s, "place_order") =>
              LET pre == sess[s].pre
                  u == sess[s].user
                  items == CartItemsIn(pre, u)
                  new == order_items' \ pre.order_items
              IN /\ \E o \in orders' :
                      /\ o \notin pre.orders
                      /\ orders' = pre.orders \cup {o}
                      /\ o.status = "Pending"
                      /\ o.user_id = u
                      /\ o.total_amount = RawTotal(pre, items)
                      /\ \A n \in new : n.order_id = o.id
                 /\ Cardinality(new) = Cardinality(items)
                 /\ \A i \in items : \E n \in new :
                        n.product_id = i.product_id /\ n.quantity = i.quantity
                           /\ n.price_at_purchase = pre.products[i.product_id].price
                 /\ \A p \in Products :
                        products'[p].stock = pre.products[p].stock - QuantityOf(items, p)
                 /\ CartItemsIn(DB', u) = {}]_vars

\* an order of two items, one of them with quantity 2, was committed
C2_Witness ==
    \E s \in Sessions :
        /\ resp[s].code = 201
        /\ \E a, b \in order_items :
              a.order_id = resp[s].order_id /\ b.order_id = a.order_id
                 /\ a.product_id # b.product_id /\ a.quantity = 2

\* C3: the tables change in a step of a checkout only when its order appears,
\* and the step in which an order appears also shows one order item per cart
\* item, every stock decrement and the deletion of the cart items; from a
\* failure (500) of the flush or the commit until the session is closed, the
\* tables are what they were when the request began.
C3_CheckoutIsOneTransaction ==
    [][/\ \A o \in orders' \ orders :
            \E s \in Sessions :
               /\ sess[s].op = "place_order" /\ sess[s].order_id = o.id
               /\ LET new == order_items' \ order_items IN
                    /\ \A n \in new : n.order_id = o.id
                    /\ Cardinality(new) = Cardinality(sess[s].items)
                    /\ \A i \in sess[s].items : \E n \in new :
                          n.product_id = i.product_id /\ n.quantity = i.quantity
               /\ \A p \in Products :
                    products'[p].stock = products[p].stock - QuantityOf(sess[s].items, p)
               /\ \A i \in sess[s].items : \A j \in cart_items' : j.id # i.id
       /\ \A s \in Sessions :
            /\ ((sess[s].op = "place_order" \/ sess'[s].op = "place_order")
                  /\ sess'[s] # sess[s] /\ DB' # DB)
               => orders' \ orders # {}
            /\ (sess[s].op = "place_order" /\ resp[s].code = 500)
               => (DB = sess[s].pre /\ DB' = sess[s].pre)]_vars

\* the request failed after the order row and the stock updates were flushed
C3_Witness ==
    \E s \in Sessions :
        sess[s].op = "place_order" /\ resp[s].code = 500 /\ sess[s].flushed
           /\ sess[s].dirty # {}

\* C5: no product's persisted stock is negative.
C5_StockNeverNegative ==
    \A p \in Products : products[p].stock >= 0

\* an order holding an item of negative quantity and an item that took the
\* last unit of its product
C5_Witness ==
    \E a, b \in order_items :
        /\ a.quantity < 0
        /\ b.quantity > 0 /\ products[b.product_id].stock = 0
\* the quantity of product p over all committed order items
Sold(p) ==
    Sum({[id |-> <<n.order_id, n.n>>, n |-> n.quantity]
            : n \in {m \in order_items : m.product_id = p}})

\* C4: under interleaved checkouts of different users the quantity sold of a
\* product never exceeds the stock it started with, and once no request is in
\* flight the stock is the initial stock minus the quantity sold.
C4_NoOverselling ==
    \A p \in Products :
        /\ Sold(p) <= stock0[p]
        /\ AllIdle => products[p].stock = stock0[p] - Sold(p)

\* C6: the order items of a checkout carry the product's price of that moment,
\* and no later step changes or removes an order item or changes the total of
\* an order.
C6_PriceAtPurchaseFrozen ==
    [][/\ \A n \in order_items : n \in order_items'
       /\ \A o \in orders : \E o2 \in orders' :
              o2.id = o.id /\ o2.total_amount = o.total_amount
       /\ \A s \in Sessions : Commits(s, "place_order") =>
              \A n \in order_items' \ order_items :
                  n.price_at_purchase = products[n.product_id].price]_vars

\* the product's price was changed after the order: the order item keeps the
\* old one
C6_Witness ==
    \E n \in order_items : \E o \in orders :
        /\ o.id = n.order_id
        /\ n.price_at_purchase # products[n.product_id].price
        /\ n.quantity > 0

\* ======================================================= coupon properties
\* the day a zero-padded date string names
DayOf(str) == 10 * str[1] + str[2]

\* an active coupon of that code passes every check of the validator
Acceptable(db, code, subtotal) ==
    \E c \in db.coupons :
        /\ c.code = Upper(code) /\ c.is_active
        /\ ~StrTruthy(c.expiry_date) \/ DayOf(Val(c.expiry_date)) >= today
        /\ subtotal >= (IF IsNull(c.min_cart_value) THEN 0 ELSE Val(c.min_cart_value))
        /\ IsNull(c.usage_count) \/ Val(c.usage_count) < USAGE_LIMIT

\* C7: an apply-coupon request whose code passes validation goes on to its
\* commit, and that commit raises the coupon's usage_count by exactly 1 (NULL
\* counted as 0), changes no other coupon and stores the code in the user's
\* CartSettings; a request answered 400 (rejected code or empty cart) leaves
\* the tables as they were when it began; and no other step (cart items,
\* checkout, summary) changes a usage_count or the CartSettings.
C7_UsageCountOnlyOnApply ==
    [][/\ \A s \in Sessions :
            /\ (sess[s].op = "apply_coupon" /\ sess[s].pc = "coupon"
                  /\ sess'[s].pc # "coupon"
                  /\ Acceptable(DB, sess[s].input, sess[s].subtotal))
               => sess'[s].pc = "settings"
            /\ Commits(s, "apply_coupon") =>
                  /\ \E c \in coupons :
                        /\ c.id = sess[s].coupon_id
                        /\ coupons' = (coupons \ {c}) \cup
                              {[c EXCEPT !.usage_count = <<OrZero(c.usage_count) + 1>>]}
                        /\ \E st \in cart_settings' :
                              st.user_id = sess[s].user /\ st.coupon_applied = <<c.code>>
            /\ (sess[s].op = "apply_coupon" /\ resp[s].code = 400)
               => (DB = sess[s].pre /\ DB' = sess[s].pre)
       /\ \A c \in coupons : \A d \in coupons' :
            (d.id = c.id /\ d.usage_count # c.usage_count)
               => \E s \in Sessions :
                     Commits(s, "apply_coupon") /\ sess[s].coupon_id = c.id
       /\ cart_settings' # cart_settings
          => \E s \in Sessions : Commits(s, "apply_coupon")]_vars

\* a coupon whose usage_count was NULL was applied: the count is 1 and the
\* code is stored
C7_Witness ==
    \E s \in Sessions :
        /\ sess[s].op = "apply_coupon" /\ resp[s].code = 200
        /\ \E c \in sess[s].pre.coupons : \E d \in coupons :
              c.id = d.id /\ IsNull(c.usage_count) /\ d.usage_count = <<1>>
                 /\ [user_id |-> sess[s].user, coupon_applied |-> <<d.code>>]
                        \in cart_settings

\* C8: from the moment a cart summary or full cart request begins until its
\* session is closed, the coupons table and the CartSettings are unchanged.
C8_SummaryDoesNotConsumeUsage ==
    [][\A s \in Sessions :
         (sess[s].op \in {"summary", "full_cart"} \/ sess'[s].op \in {"summary", "full_cart"})
            => (coupons' = coupons /\ cart_settings' = cart_settings)]_vars

\* a summary was computed with the stored coupon: the session holds the
\* coupon with its usage_count raised, the table does not
C8_Witness ==
    \E s \in Sessions :
        /\ sess[s].op = "summary" /\ sess[s].pc = "return"
        /\ resp[s].summary.discount > 0
        /\ \E c \in coupons :
              c.id = sess[s].coupon_id /\ sess[s].usage_count = OrZero(c.usage_count) + 1

\* C9: every committed apply-coupon raises the persisted usage_count of its
\* coupon by one, whatever other requests did in between, so that N commits
\* raise it by N.
C9_NoLostUsageUpdate ==
    [][\A s \in Sessions : Commits(s, "apply_coupon") =>
          \A c \in coupons : c.id = sess[s].coupon_id =>
              \E d \in coupons' : d.id = c.id
                 /\ d.usage_count = <<OrZero(c.usage_count) + 1>>]_vars

\* the stored code does not pass the validator
BadCoupon(db, code, subtotal) == ~Acceptable(db, code, subtotal)

\* C10: a cart summary (or full cart) of a non-empty cart whose stored coupon
\* code fails validation is answered 200 with discount 0 and
\* total = subtotal + shipping + tax; it never fails.
C10_SummarySoftFails ==
    \A s \in Sessions :
        (sess[s].op \in {"summary", "full_cart"} /\ sess[s].pc \in {"return", "raise"}) =>
            LET u == sess[s].user
                pre == sess[s].pre
                items == CartItemsIn(pre, u)
                stored == {st \in pre.cart_settings :
                              st.user_id = u /\ ~IsNull(st.coupon_applied)}
            IN \A st \in stored :
                 (items # {} /\ BadCoupon(pre, Val(st.coupon_applied), RawTotal(pre, items)))
                    => /\ resp[s].code = 200
                       /\ resp[s].summary.discount = 0
                       /\ resp[s].summary.item_count = Cardinality(items)
                       /\ resp[s].summary.total =
                             resp[s].summary.subtotal + resp[s].summary.shipping
                                + resp[s].summary.tax

\* the summary of a cart whose applied coupon was deactivated afterwards
C10_Witness ==
    \E s \in Sessions :
        /\ sess[s].op = "summary" /\ sess[s].pc = "return"
        /\ sess[s].items # {}
        /\ \E st \in cart_settings : \E c \in coupons :
              /\ st.user_id = sess[s].user
              /\ st.coupon_applied = <<c.code>>
              /\ ~c.is_active
        /\ resp[s].summary.discount = 0 /\ resp[s].summary.total > 0

\* ================================================ validator and pricing rules
\* the step of apply-coupon that runs the validator
Validates(s) ==
    sess[s].op = "apply_coupon" /\ sess[s].pc = "coupon" /\ sess'[s].pc # "coupon"

\* the active coupons whose stored code is the uppercased input
Matching(code) == {c \in coupons : c.code = Upper(code) /\ c.is_active}

NotExpired(c)  == ~StrTruthy(c.expiry_date) \/ DayOf(Val(c.expiry_date)) >= today
MinimumMet(c, subtotal) ==
    subtotal >= (IF IsNull(c.min_cart_value) THEN 0 ELSE Val(c.min_cart_value))
BelowCeiling(c) == IsNull(c.usage_count) \/ Val(c.usage_count) < USAGE_LIMIT

\* C11: the validator accepts a code exactly when an active coupon stored
\* under the uppercased code exists, is not expired (its last day counts as
\* valid), has its minimum met (an absent minimum is 0, the minimum itself is
\* enough) and is below the usage ceiling; otherwise the request is answered
\* 400 with the message of the first rule broken, in the order not found,
\* expired, minimum not met, usage limit reached.
C11_CouponAcceptance ==
    [][\A s \in Sessions : Validates(s) =>
          LET subtotal == sess[s].subtotal
              match == Matching(sess[s].input)
          IN /\ sess'[s].pc = "settings" <=>
                   \E c \in match : /\ NotExpired(c)
                                    /\ MinimumMet(c, subtotal)
                                    /\ BelowCeiling(c)
             /\ sess'[s].pc = "settings" \/ resp'[s].code = 400
             /\ match = {} => resp'[s].detail = "Invalid coupon code"
             /\ \A c \in match :
                   /\ ~NotExpired(c) => resp'[s].detail = "Coupon has expired"
                   /\ NotExpired(c) /\ ~MinimumMet(c, subtotal)
                         => resp'[s].detail = "Minimum cart value required"
                   /\ NotExpired(c) /\ MinimumMet(c, subtotal) /\ ~BelowCeiling(c)
                         => resp'[s].detail = "Coupon usage limit reached"]_vars

\* a lowercase code was accepted for a coupon on its last day with the
\* subtotal equal to the minimum
C11_Witness ==
    \E s \in Sessions : \E c \in coupons :
        /\ sess[s].op = "apply_coupon" /\ sess[s].pc = "settings"
        /\ sess[s].input = "flat100" /\ sess[s].coupon_id = c.id
        /\ c.expiry_date = <<IsoDate(today)>>
        /\ c.min_cart_value = <<sess[s].subtotal>>


\* C12: with requests served one at a time, a coupon whose usage_count has
\* reached the ceiling is refused by every further apply-coupon (with the
\* usage-limit message when no earlier rule is broken), and the persisted
\* usage_count of a coupon never passes the ceiling.
C12_UsageCeiling ==
    [][/\ \A c \in coupons' : IsNull(c.usage_count) \/ Val(c.usage_count) <= USAGE_LIMIT
       /\ \A s \in Sessions : Validates(s) =>
             \A c \in Matching(sess[s].input) : ~BelowCeiling(c) =>
                 /\ sess'[s].pc = "raise" /\ resp'[s].code = 400
                 /\ NotExpired(c) /\ MinimumMet(c, sess[s].subtotal)
                       => resp'[s].detail = "Coupon usage limit reached"]_vars

\* the application that brought the coupon to the ceiling was committed and
\* the next one is refused
C12_Witness ==
    \E s \in Sessions : \E c \in coupons :
        /\ c.usage_count = <<USAGE_LIMIT>>
        /\ sess[s].op = "apply_coupon" /\ sess[s].pc = "raise"
        /\ Upper(sess[s].input) = c.code /\ c.is_active
        /\ resp[s].detail = "Coupon usage limit reached"


\* C13: the discount of an accepted percentage coupon is subtotal * value /
\* 100 when max_discount is absent and the smaller of that and max_discount
\* whenever max_discount holds a value, so it never exceeds a cap that is set.
C13_PercentageDiscount ==
    [][\A s \in Sessions : Validates(s) /\ sess'[s].pc = "settings" =>
          \A c \in Matching(sess[s].input) : c.discount_type = "percentage" =>
              LET share == (sess[s].subtotal * c.value) \div 100
              IN IF IsNull(c.max_discount)
                 THEN sess'[s].discount = share
                 ELSE /\ sess'[s].discount = Min(share, Val(c.max_discount))
                      /\ sess'[s].discount <= Val(c.max_discount)]_vars


\* C14: the discount of an accepted coupon that is not a percentage coupon is
\* the smaller of its value and the subtotal, so it is never above the
\* subtotal and the discounted subtotal is never negative.
C14_FixedDiscount ==
    [][\A s \in Sessions : Validates(s) /\ sess'[s].pc = "settings" =>
          \A c \in Matching(sess[s].input) : c.discount_type # "percentage" =>
              /\ sess'[s].discount = IF c.value <= sess[s].subtotal
                                     THEN c.value ELSE sess[s].subtotal
              /\ sess'[s].discount <= sess[s].subtotal
              /\ sess[s].subtotal - sess'[s].discount >= 0]_vars

\* a fixed coupon worth more than the cart was accepted and took the subtotal
C14_Witness ==
    \E s \in Sessions : \E c \in coupons :
        /\ sess[s].op = "apply_coupon" /\ sess[s].pc = "settings"
        /\ sess[s].coupon_id = c.id /\ c.discount_type = "fixed"
        /\ c.value > sess[s].subtotal /\ sess[s].subtotal > 0
        /\ sess[s].discount = sess[s].subtotal


\* a cart summary answered for a cart with items
Summarised(s) ==
    /\ sess[s].op \in {"summary", "full_cart"} /\ sess[s].pc = "return"
    /\ sess[s].items # {}

\* the coupon code stored for the user when the request began, if any
StoredCode(s) ==
    {Val(st.coupon_applied) : st \in {x \in sess[s].pre.cart_settings :
        x.user_id = sess[s].user /\ ~IsNull(x.coupon_applied) /\ x.coupon_applied # <<"">>}}

\* the user holds a usage record of a free-shipping coupon
HasFreeShipping(u) ==
    \E r \in coupon_usages : r.user_id = u /\ r.coupon_type = "free_shipping"

\* C15: the summary of a non-empty cart has subtotal = sum of price *
\* quantity over the items, item_count = the number of items, discount 0
\* without an acceptable coupon and min(value, subtotal) for an accepted fixed
\* coupon, tax of 18% on subtotal - discount, and total = subtotal - discount
\* + shipping + tax.  Subtotal 1200 with the fixed coupon of 100 (minimum 500)
\* gives discount 100, shipping 0, tax 198, total 1298; subtotal 500 without
\* a coupon gives shipping 99, tax 90, total 689.
C15_SummaryComposition ==
    \A s \in Sessions : Summarised(s) =>
        LET m == resp[s].summary
            pre == sess[s].pre
            items == CartItemsIn(pre, sess[s].user)
            codes == StoredCode(s)
        IN /\ resp[s].code = 200
           /\ m.subtotal = RawTotal(pre, items)
           /\ m.item_count = Cardinality(items)
           /\ m.total = m.subtotal - m.discount + m.shipping + m.tax
           /\ m.tax * 100 = (m.subtotal - m.discount) * GST_PERCENT
           /\ m.shipping \in {0, Rs(STANDARD_SHIPPING)}
           /\ (\A code \in codes : ~Acceptable(pre, code, m.subtotal)) => m.discount = 0
           /\ \A code \in codes : \A c \in pre.coupons :
                 (c.code = Upper(code) /\ c.discount_type = "fixed"
                     /\ Acceptable(pre, code, m.subtotal))
                    => m.discount = IF c.value <= m.subtotal THEN c.value ELSE m.subtotal
           /\ (m.subtotal = Rs(1200) /\ m.discount = Rs(100))
                 => m.shipping = 0 /\ m.tax = Rs(198) /\ m.total = Rs(1298)
           /\ (m.subtotal = Rs(500) /\ codes = {} /\ ~HasFreeShipping(sess[s].user))
                 => m.shipping = Rs(99) /\ m.tax = Rs(90) /\ m.total = Rs(689)

\* the summary of the cart of 1200 with the fixed coupon of 100 applied
C15_Witness ==
    \E s \in Sessions : \E c \in coupons :
        /\ Summarised(s) /\ StoredCode(s) = {c.code}
        /\ c.discount_type = "fixed" /\ c.value = Rs(100)
        /\ c.min_cart_value = <<Rs(500)>>
        /\ resp[s].summary.subtotal = Rs(1200)
        /\ resp[s].summary.discount = Rs(100)
        /\ resp[s].summary.total = Rs(1298)


C17_TaxRule ==
    \A s \in Sessions : Summarised(s) =>
        LET m == resp[s].summary
        IN /\ m.tax = RoundDiv((m.subtotal - m.discount) * GST_PERCENT, 10000) * 100
           /\ m.tax >= 0


\* ============================================================ cart properties
\* the commit of an add_to_cart request
AddsItem(s) ==
    sess[s].op = "add_to_cart" /\ sess[s].pc = "add_item" /\ sess'[s].pc = "return"

\* C18: with requests served one at a time no cart holds two items of the
\* same product, and add_to_cart for a product already in the cart raises the
\* quantity of that item by the requested quantity and adds no row.
C18_OneItemPerProduct ==
    [][/\ \A i, j \in cart_items' :
             (i.cart_id = j.cart_id /\ i.product_id = j.product_id) => i.id = j.id
       /\ \A s \in Sessions : AddsItem(s) =>
             \A e \in cart_items :
                 (e.cart_id = sess[s].cart_id /\ e.product_id = sess[s].product_id)
                    => cart_items' = (cart_items \ {e}) \cup
                          {[e EXCEPT !.quantity = e.quantity + sess[s].quantity]}]_vars

\* an add_to_cart for a product the cart already held has been committed
C18_Witness ==
    \E s \in Sessions : \E e \in sess[s].items : \E i \in cart_items :
        /\ sess[s].op = "add_to_cart" /\ sess[s].pc = "return"
        /\ e.product_id = sess[s].product_id /\ sess[s].quantity > 0
        /\ i.id = e.id /\ i.quantity = e.quantity + sess[s].quantity
        /\ Cardinality(cart_items) = Cardinality(sess[s].items)


\* C19: every persisted CartItem has a quantity of 1 or more, whatever
\* quantities add_to_cart and update_cart_item_quantity were sent.
C19_QuantityPositive ==
    \A i \in cart_items : i.quantity >= 1

\* C20: after any interleaving of view_cart and add_to_cart requests of one
\* user, two first accesses at the same time included, the user has exactly
\* one Cart row once a request has got its cart, never more than one, and no
\* step, checkout included, deletes a Cart row.
C20_OneCartPerUser ==
    [][/\ \A u \in Users : Cardinality({c \in carts' : c.user_id = u}) <= 1
       /\ \A s \in Sessions :
             (sess'[s].op \in {"view_cart", "add_to_cart"} /\ sess'[s].cart_id # 0)
                => Cardinality({c \in carts' : c.user_id = sess'[s].user}) = 1
       /\ carts \subseteq carts']_vars


\* ================================================= order properties, again
EmptyCart(s) == sess[s].op = "place_order" /\ resp[s].detail = "Cart is empty"

\* C21: a checkout by a user who has no Cart row, or whose cart has no items,
\* is answered 400 "Cart is empty", and from that answer until the request's
\* session is closed (the close included) the tables are what they were when
\* the request began: no order, no order item, no stock changed.
C21_EmptyCartCheckout ==
    [][\A s \in Sessions :
         /\ (Begins(s, "place_order") /\ CartItemsIn(DB, sess'[s].user) = {})
            => (resp'[s].code = 400 /\ resp'[s].detail = "Cart is empty"
                  /\ sess'[s].pc = "raise")
         /\ EmptyCart(s)' => DB' = DB
         /\ EmptyCart(s) => (DB = sess[s].pre /\ DB' = sess[s].pre)]_vars

\* the user has a cart, which held an item once and holds none now
C21_Witness ==
    \E s \in Sessions :
        /\ EmptyCart(s)
        /\ CartsOf(sess[s].user) # {}
        /\ seq.item > 0
\* the seven states of an order
OrderStatuses ==
    {"Pending", "Processing", "Packed", "Shipped", "Delivered", "Cancelled", "Returned"}

TerminalStatuses == {"Delivered", "Cancelled", "Returned"}

OrderIn(db, id) == {o \in db.orders : o.id = id}

\* C22: an order that appears is Pending; the status of every order is one of
\* the seven; and an admin's update-order-status naming any of the six other
\* states for an order that is Pending puts the order in that state.
C22_OrderStatusStates ==
    [][/\ \A o \in orders' : (\A q \in orders : q.id # o.id) => o.status = "Pending"
       /\ \A o \in orders' : o.status \in OrderStatuses
       /\ \A s \in Sessions :
            (/\ Begins(s, "update_order_status")
             /\ sess'[s].user \in Admins
             /\ sess'[s].input \in OrderStatuses \ {"Pending"}
             /\ \E o \in orders : o.id = sess'[s].order_id /\ o.status = "Pending")
            => \E o \in orders' :
                  o.id = sess'[s].order_id /\ o.status = sess'[s].input]_vars

\* C23: an order that is Delivered, Cancelled or Returned keeps that status
\* in every later step.
C23_TerminalStatuses ==
    [][\A o \in orders, q \in orders' :
          (o.id = q.id /\ o.status \in TerminalStatuses) => q.status = o.status]_vars

\* C24: an update-order-status request whose status passed the validator is
\* answered 403 for a user who is no superuser and 404 for a superuser naming
\* an order that does not exist, the tables unchanged; for a superuser naming
\* an existing order it is answered 200 whatever the order's status was, and
\* the tables then differ from before in the status of that one order only,
\* which is the requested one.  Closing the request's session changes nothing.
C24_UpdateStatusAdminOnly ==
    [][\A s \in Sessions :
         /\ (Begins(s, "update_order_status") /\ validate_status(sess'[s].input)) =>
              LET id == sess'[s].order_id IN
              /\ sess'[s].user \notin Admins =>
                    (resp'[s].code = 403 /\ DB' = DB)
              /\ (sess'[s].user \in Admins /\ OrderIn(DB, id) = {}) =>
                    (resp'[s].code = 404 /\ DB' = DB)
              /\ (sess'[s].user \in Admins /\ OrderIn(DB, id) # {}) =>
                    /\ resp'[s].code = 200
                    /\ DB' = [DB EXCEPT !.orders =
                                {IF o.id = id THEN [o EXCEPT !.status = sess'[s].input]
                                 ELSE o : o \in orders}]
         /\ (sess[s].op = "update_order_status") => DB' = DB]_vars

\* an admin moved a Delivered order back to Processing while a second order
\* exists, which is still Pending
C24_Witness ==
    \E s \in Sessions :
        /\ sess[s].op = "update_order_status" /\ resp[s].code = 200
        /\ \E o \in sess[s].pre.orders : o.id = sess[s].order_id /\ o.status = "Delivered"
        /\ \E o \in orders : o.id = sess[s].order_id /\ o.status = "Processing"
        /\ \E o \in orders : o.id # sess[s].order_id /\ o.status = "Pending"

\* ======================================================= review properties
\* the reviews user u has of product p
ReviewsBy(u, p) == {v \in product_reviews : v.product_id = p /\ v.user_id = u}

\* the sum of the ratings of the reviews
RatingSum(S) == Sum({[id |-> v.id, n |-> v.rating] : v \in S})

C26_AggregatesMatchReviews ==
    \A p \in Products :
        LET rows == ReviewsOf(p) IN
        /\ ratings[p].review_count = Cardinality(rows)
        /\ ratings[p].average_rating =
              IF rows = {} THEN 0 ELSE RoundDiv(10 * RatingSum(rows), Cardinality(rows))

\* ============================================== coupon properties, again
\* C27: every stored coupon code is its own uppercase form, no two coupons
\* carry the same code, and a request to apply a code that is, up to letter
\* case, the code of a stored active coupon is not refused as an invalid
\* code.
C27_CodesUppercaseUnique ==
    [][/\ \A c \in coupons' : c.code = Upper(c.code)
       /\ \A c, d \in coupons' : c.code = d.code => c.id = d.id
       /\ \A s \in Sessions :
            (Validates(s) /\ \E c \in coupons :
                                c.is_active /\ Upper(c.code) = Upper(sess[s].input))
            => resp'[s].detail # "Invalid coupon code"]_vars

\* C28: the order a checkout commits carries as total the sum of price *
\* quantity over the cart's items, with no discount, shipping or tax in it,
\* and no step of a checkout changes a coupon (its usage_count included) or
\* the CartSettings.
C28_CheckoutIgnoresCoupons ==
    [][\A s \in Sessions :
         /\ (Begins(s, "place_order") \/ sess[s].op = "place_order")
            => (coupons' = coupons /\ cart_settings' = cart_settings)
         /\ Commits(s, "place_order") =>
              \E o \in orders' :
                 /\ orders' = sess[s].pre.orders \cup {o}
                 /\ o \notin sess[s].pre.orders
                 /\ o.total_amount =
                       RawTotal(sess[s].pre, CartItemsIn(sess[s].pre, sess[s].user))]_vars

\* an order was committed for a user whose CartSettings hold an applied
\* coupon that is still active and whose minimum the cart had met
C28_Witness ==
    \E s \in Sessions :
        /\ sess[s].op = "place_order" /\ resp[s].code = 201
        /\ \E st \in cart_settings, c \in coupons, o \in orders :
              /\ st.user_id = sess[s].user /\ st.coupon_applied = <<c.code>>
              /\ c.is_active /\ c.usage_count = <<1>>
              /\ o.id = resp[s].order_id
              /\ o.total_amount >= OrZero(c.min_cart_value) /\ o.total_amount > 0

\* the checkout of session s committed its order
Placed(s) == sess[s].op = "place_order" /\ resp[s].code = 201

\* C29: two checkouts of one user that are in flight together never both
\* commit an order for the same cart items.
C29_CartConvertsOnce ==
    \A s, t \in Sessions :
        (s # t /\ Placed(s) /\ Placed(t) /\ sess[s].user = sess[t].user)
           => sess[s].items \cap sess[t].items = {}

\* ========================================================= cart ownership
ChangesItem(s) ==
    Idle(s) /\ sess'[s].op \in {"remove_item", "update_cart_item_quantity"}

\* C30: a remove_item or update_cart_item_quantity request that names an item
\* which is in no cart of the calling user (another user's item, or no item
\* at all) is answered 404 with the tables unchanged; whatever it names, the
\* cart items of every other user are after the request what they were
\* before, and closing the request's session changes nothing.
C30_CartOwnership ==
    [][\A s \in Sessions :
         /\ ChangesItem(s) =>
              LET u == sess'[s].user IN
              /\ (\A i \in CartItemsIn(DB, u) : i.id # sess'[s].item_id)
                    => (resp'[s].code = 404 /\ DB' = DB)
              /\ \A v \in Users \ {u} : CartItemsIn(DB', v) = CartItemsIn(DB, v)
              /\ carts' = carts
         /\ sess[s].op \in {"remove_item", "update_cart_item_quantity"} => DB' = DB]_vars

\* a request named an item that is in the cart of another user
C30_Witness ==
    \E s \in Sessions :
        /\ sess[s].op \in {"remove_item", "update_cart_item_quantity"}
        /\ resp[s].code = 404
        /\ \E v \in Users \ {sess[s].user} :
              \E i \in CartItemsIn(DB, v) : i.id = sess[s].item_id
====
